---- MODULE Spec2Model ----
(***************************************************************************)
(* Model of src/src/media-type.js (sf-utils): the media-type splitter, the *)
(* Accept-style sorter and the requested/allowed matcher.                  *)
(*                                                                         *)
(* JavaScript values are records [t, n, s]:                                *)
(*   t = "number"    n is the value in units of 1/10000 (fixed point)      *)
(*   t = "string"    s is the sequence of its characters                   *)
(*   t = "boolean"   n is 1 (true) or 0 (false)                            *)
(*   t = "undefined"                                                       *)
(* so that === on primitives is equality of records.  A Map is the         *)
(* sequence of its <<key, value>> entries in insertion order.  An item of  *)
(* a structured-field list is [token |-> characters, params |-> Map].      *)
(***************************************************************************)
EXTENDS Integers, Sequences, FiniteSets, TLC

VARIABLES pc, req, allowed, result, input, heap, types, sorted, cmpArgs, cmpRes

vars == <<pc, req, allowed, result, input, heap, types, sorted, cmpArgs, cmpRes>>

\* ------------------------------------------------------------------ bounds
MaxParams == 2
MaxItems == 3

\* ------------------------------------------------------- JavaScript values
Num(k) == [t |-> "number", n |-> k, s |-> <<>>]
Str(cs) == [t |-> "string", n |-> 0, s |-> cs]
Bool(b) == [t |-> "boolean", n |-> IF b THEN 1 ELSE 0, s |-> <<>>]
Undefined == [t |-> "undefined", n |-> 0, s |-> <<>>]

Digits == <<"0", "1", "2", "3", "4", "5", "6", "7", "8", "9">>
IsDigit(c) == \E i \in 1..10 : Digits[i] = c
DigitVal(c) == (CHOOSE i \in 1..10 : Digits[i] = c) - 1

RECURSIVE NatToChars(_)
NatToChars(k) ==
  IF k < 10 THEN <<Digits[k + 1]>>
  ELSE NatToChars(k \div 10) \o <<Digits[(k % 10) + 1]>>

RECURSIVE TrimZeros(_)
TrimZeros(cs) ==
  IF Len(cs) > 0 /\ cs[Len(cs)] = "0" THEN TrimZeros(SubSeq(cs, 1, Len(cs) - 1))
  ELSE cs

\* the four fractional digits of a fixed-point fraction f in 0..9999
FracChars(f) ==
  <<Digits[(f \div 1000) + 1], Digits[((f \div 100) % 10) + 1],
    Digits[((f \div 10) % 10) + 1], Digits[(f % 10) + 1]>>

\* Number.prototype.toString on a fixed-point number: 20000 -> "2",
\* 5000 -> "0.5", -5000 -> "-0.5"
NumberToString(k) ==
  LET a == IF k < 0 THEN 0 - k ELSE k
      body == NatToChars(a \div 10000) \o
              (IF a % 10000 = 0 THEN <<>>
               ELSE <<".">> \o TrimZeros(FracChars(a % 10000)))
  IN IF k < 0 THEN <<"-">> \o body ELSE body

\* x.toString(); calling it on undefined raises a TypeError (see Throws)
toString(v) ==
  CASE v.t = "number" -> NumberToString(v.n)
    [] v.t = "string" -> v.s
    [] v.t = "boolean" -> IF v.n = 1 THEN <<"t", "r", "u", "e">>
                          ELSE <<"f", "a", "l", "s", "e">>
    [] OTHER -> <<>>

toStringThrows(v) == v.t = "undefined"

RECURSIVE DigitsToNat(_, _)
DigitsToNat(cs, acc) ==
  IF cs = <<>> THEN acc ELSE DigitsToNat(Tail(cs), acc * 10 + DigitVal(Head(cs)))

RECURSIVE PadRight(_)
PadRight(cs) == IF Len(cs) >= 4 THEN SubSeq(cs, 1, 4) ELSE PadRight(cs \o <<"0">>)

AllDigits(cs) == \A i \in 1..Len(cs) : IsDigit(cs[i])

\* Number(string): a signed decimal literal is its value, the empty string is
\* 0, anything else is NaN.  Fractions are carried to four digits.
StringToNumber(cs) ==
  LET neg == Len(cs) > 0 /\ cs[1] = "-"
      signed == Len(cs) > 0 /\ (cs[1] = "-" \/ cs[1] = "+")
      u == IF signed THEN Tail(cs) ELSE cs
      dots == {i \in 1..Len(u) : u[i] = "."}
      ip == IF dots = {} THEN u ELSE SubSeq(u, 1, (CHOOSE i \in dots : TRUE) - 1)
      fp == IF dots = {} THEN <<>>
            ELSE SubSeq(u, (CHOOSE i \in dots : TRUE) + 1, Len(u))
      ok == /\ Cardinality(dots) <= 1
            /\ AllDigits(ip) /\ AllDigits(fp)
            /\ Len(ip) + Len(fp) > 0
      mag == DigitsToNat(ip, 0) * 10000 + DigitsToNat(PadRight(fp), 0)
  IN IF cs = <<>> THEN [nan |-> FALSE, n |-> 0]
     ELSE IF ~ok THEN [nan |-> TRUE, n |-> 0]
     ELSE [nan |-> FALSE, n |-> IF neg THEN 0 - mag ELSE mag]

\* ------------------------------------------------------------------- Maps
MapKeys(m) == [i \in 1..Len(m) |-> m[i][1]]
MapHas(m, key) == \E i \in 1..Len(m) : m[i][1] = key
MapGet(m, key) ==
  IF MapHas(m, key) THEN m[CHOOSE i \in 1..Len(m) : m[i][1] = key][2]
  ELSE Undefined
MapSet(m, key, v) ==
  IF MapHas(m, key)
  THEN [i \in 1..Len(m) |-> IF m[i][1] = key THEN <<key, v>> ELSE m[i]]
  ELSE Append(m, <<key, v>>)
MapSize(m) == Len(m)

\* --------------------------------------------------------------- Splitter
Lower == <<"a", "b", "c", "d", "e", "f", "g", "h", "i", "j", "k", "l", "m",
           "n", "o", "p", "q", "r", "s", "t", "u", "v", "w", "x", "y", "z">>
Upper == <<"A", "B", "C", "D", "E", "F", "G", "H", "I", "J", "K", "L", "M",
           "N", "O", "P", "Q", "R", "S", "T", "U", "V", "W", "X", "Y", "Z">>

TOKEN ==
  {Lower[i] : i \in 1..26} \cup {Upper[i] : i \in 1..26} \cup
  {Digits[i] : i \in 1..10} \cup
  {"-", "!", "#", "$", "%", "^", "&", "*", "_", "+", "{", "}", "|", "'", ".",
   "~"}
\* (the class's grave accent is left out: the character cannot be written
\* in a string of this language; no token of the model uses it)

\* TOKEN+ : one or more characters of the class
IsToken(cs) == Len(cs) >= 1 /\ \A i \in 1..Len(cs) : cs[i] \in TOKEN

\* MEDIA_TYPE.exec(cs): <<whole, group 1, group 2>>, or <<>> for null
MEDIA_TYPE(cs) ==
  LET cut == {k \in 1..Len(cs) :
                /\ cs[k] = "/"
                /\ IsToken(SubSeq(cs, 1, k - 1))
                /\ IsToken(SubSeq(cs, k + 1, Len(cs)))}
  IN IF cut = {} THEN <<>>
     ELSE LET k == CHOOSE k \in cut : TRUE
          IN <<cs, SubSeq(cs, 1, k - 1), SubSeq(cs, k + 1, Len(cs))>>

toLowerCase(cs) ==
  [i \in 1..Len(cs) |->
     IF \E j \in 1..26 : Upper[j] = cs[i]
     THEN Lower[CHOOSE j \in 1..26 : Upper[j] = cs[i]]
     ELSE cs[i]]

split(mediaType) ==
  LET m == MEDIA_TYPE(mediaType)
  IN IF m = <<>> THEN <<>>
     ELSE [i \in 1..(Len(m) - 1) |-> Str(toLowerCase(Tail(m)[i]))]

\* const [x, y] = arr : a missing element is undefined
At(arr, i) == IF i <= Len(arr) THEN arr[i] ELSE Undefined

Star == Str(<<"*">>)

\* ---------------------------------------------------------------- Matcher
\* results of match/contains:
\*   [kind |-> "true"], [kind |-> "false"], [kind |-> "map", map |-> Map],
\*   [kind |-> "throw"] (a TypeError escapes the call)
RTrue == [kind |-> "true", map |-> <<>>]
RFalse == [kind |-> "false", map |-> <<>>]
RMap(m) == [kind |-> "map", map |-> m]
RThrow == [kind |-> "throw", map |-> <<>>]

RECURSIVE containsLoop(_, _, _, _)
containsLoop(r, a, i, misMatched) ==
  IF i > Len(r)
  THEN IF MapSize(misMatched) # 0 THEN RMap(misMatched) ELSE RTrue
  ELSE LET key == MapKeys(r)[i]
       IN IF key = "q" \/ MapHas(a, key)
          THEN IF MapGet(r, key) = MapGet(a, key)
               THEN containsLoop(r, a, i + 1, misMatched)
               ELSE IF toStringThrows(MapGet(r, key)) \/ toStringThrows(MapGet(a, key))
               THEN RThrow
               ELSE IF toString(MapGet(r, key)) = toString(MapGet(a, key))
               THEN containsLoop(r, a, i + 1, misMatched)
               ELSE containsLoop(r, a, i + 1, MapSet(misMatched, key, MapGet(r, key)))
          ELSE RFalse

contains(r, a) == containsLoop(r, a, 1, <<>>)

\* match with the allowed side's wildcard honoured as well
match_allowedWildcard(r, a) ==
  LET sa == split(a.token)
      sr == split(r.token)
  IN IF (At(sr, 1) = Star \/ At(sa, 1) = Star \/ At(sa, 1) = At(sr, 1)) /\
        (At(sr, 2) = Star \/ At(sa, 2) = Star \/ At(sa, 2) = At(sr, 2))
     THEN contains(r.params, a.params)
     ELSE RFalse

match(r, a) ==
  LET sa == split(a.token)
      sr == split(r.token)
      allowedType == At(sa, 1)
      allowedSubtype == At(sa, 2)
      reqType == At(sr, 1)
      reqSubtype == At(sr, 2)
  IN IF (reqType = Star \/ allowedType = reqType) /\
        (reqSubtype = Star \/ allowedSubtype = reqSubtype)
     THEN contains(r.params, a.params)
     ELSE RFalse

\* ----------------------------------------------------------------- Sorter
\* Number(q.toString()) for a value that is not a number
Number(v) == StringToNumber(toString(v))

\* extractQuality rounding to the nearest thousandth instead of truncating
extractQuality_rounds(q) ==
  IF q = Undefined THEN 1000
  ELSE LET qNum == IF q.t = "number" THEN [nan |-> FALSE, n |-> q.n] ELSE Number(q)
       IN IF ~qNum.nan /\ qNum.n = 10000 THEN 1000
          ELSE IF ~qNum.nan /\ qNum.n > 0 /\ qNum.n < 10000
          THEN (qNum.n + 5) \div 10
          ELSE 0

extractQuality(q) ==
  IF q = Undefined THEN 1000
  ELSE LET qNum == IF q.t = "number" THEN [nan |-> FALSE, n |-> q.n] ELSE Number(q)
       IN IF ~qNum.nan /\ qNum.n = 10000 THEN 1000
          ELSE IF ~qNum.nan /\ qNum.n > 0 /\ qNum.n < 10000
          THEN qNum.n \div 10      \* Math.floor(qNum * 1000)
          ELSE 0

sortByQuality(a, b) == extractQuality(b) - extractQuality(a)

\* sortByType without its */* lines: */* ranks with type/*
sortByType_noAnyAny(a, b) ==
  LET sa == split(a)
      sb == split(b)
  IN IF At(sa, 1) = At(sb, 1) /\ At(sa, 2) = At(sb, 2) THEN 0
     ELSE IF At(sa, 2) = Star /\ At(sb, 2) = Star THEN 0
     ELSE IF At(sa, 2) = Star THEN 1
     ELSE IF At(sb, 2) = Star THEN -1
     ELSE 0

sortByType(a, b) ==
  LET sa == split(a)
      sb == split(b)
      aType == At(sa, 1)
      aSubtype == At(sa, 2)
      bType == At(sb, 1)
      bSubtype == At(sb, 2)
  IN IF aType = bType /\ aSubtype = bSubtype THEN 0
     ELSE IF aType = Star /\ aSubtype = Star THEN 1
     ELSE IF bType = Star /\ bSubtype = Star THEN -1
     ELSE IF aSubtype = Star /\ bSubtype = Star THEN 0
     ELSE IF aSubtype = Star THEN 1
     ELSE IF bSubtype = Star THEN -1
     ELSE 0

countQ(a) == IF a THEN 1 ELSE 0

\* sortByParameters counting q like any other parameter
sortByParameters_countsQ(a, b) == MapSize(b) - MapSize(a)

sortByParameters(a, b) ==
  MapSize(b) - countQ(MapHas(b, "q")) - MapSize(a) + countQ(MapHas(a, "q"))

\* comparator without the tie of two wildcard subtypes (line 106 dropped
\* from sortByType): text/* against image/* is 1 in both directions
comparator_noWildcardTie(a, b) ==
  LET byQ == sortByQuality(MapGet(a.params, "q"), MapGet(b.params, "q"))
      sa == split(a.token)
      sb == split(b.token)
      byT == IF At(sa, 1) = At(sb, 1) /\ At(sa, 2) = At(sb, 2) THEN 0
             ELSE IF At(sa, 1) = Star /\ At(sa, 2) = Star THEN 1
             ELSE IF At(sb, 1) = Star /\ At(sb, 2) = Star THEN -1
             ELSE IF At(sa, 2) = Star THEN 1
             ELSE IF At(sb, 2) = Star THEN -1
             ELSE 0
  IN IF byQ # 0 THEN byQ
     ELSE IF byT # 0 THEN byT
     ELSE sortByParameters(a.params, b.params)

\* x || y || z on numbers: the first operand that is not 0, else the last
comparator(a, b) ==
  LET byQ == sortByQuality(MapGet(a.params, "q"), MapGet(b.params, "q"))
      byT == sortByType(a.token, b.token)
  IN IF byQ # 0 THEN byQ
     ELSE IF byT # 0 THEN byT
     ELSE sortByParameters(a.params, b.params)

\* Array.prototype.sort(comparator) is a stable sort: each element is placed
\* behind every earlier element that the comparator does not put after it.
RECURSIVE InsertSorted(_, _)
InsertSorted(out, x) ==
  IF out = <<>> THEN <<x>>
  ELSE IF comparator(out[Len(out)], x) > 0
  THEN Append(InsertSorted(SubSeq(out, 1, Len(out) - 1), x), out[Len(out)])
  ELSE Append(out, x)

RECURSIVE SortedCopy(_, _)
SortedCopy(arr, out) ==
  IF arr = <<>> THEN out ELSE SortedCopy(Tail(arr), InsertSorted(out, Head(arr)))

\* The heap is the sequence of the arrays allocated so far; an array
\* reference is its index.  slice() allocates a copy, sort() sorts the array
\* it is called on in place and returns that same reference.
ArraySlice(h, r) == [heap |-> Append(h, h[r]), ref |-> Len(h) + 1]
ArraySort(h, r) == [heap |-> [h EXCEPT ![r] = SortedCopy(h[r], <<>>)], ref |-> r]

\* sort without the slice(): the caller's array is sorted in place
sort_inPlace(h, r) == ArraySort(h, r)

sort(h, r) ==
  LET copy == ArraySlice(h, r)
  IN ArraySort(copy.heap, copy.ref)

\* --------------------------------------------------------------- universes
Chars(a, b) == a \o <<"/">> \o b
Text == <<"t", "e", "x", "t">>
Html == <<"h", "t", "m", "l">>
Plain == <<"p", "l", "a", "i", "n">>
Image == <<"i", "m", "a", "g", "e">>
Png == <<"p", "n", "g">>

TextHtml == Chars(Text, Html)
TextHtmlUpper == Chars(<<"T", "e", "x", "t">>, <<"H", "T", "M", "L">>)
TextPlain == Chars(Text, Plain)
ImagePng == Chars(Image, Png)
TextAny == Chars(Text, <<"*">>)
ImageAny == Chars(Image, <<"*">>)
AnyAny == Chars(<<"*">>, <<"*">>)
AnyHtml == Chars(<<"*">>, Html)
NoSlash == Text \o Html
EmptySubtype == Chars(Text, <<>>)
ExtraSlash == Chars(TextHtml, <<"x">>)
BadChar == Chars(Text, <<"h", "t", " ", "m", "l">>)

Malformed == {NoSlash, EmptySubtype, ExtraSlash, BadChar}
WellFormed == {TextHtml, TextHtmlUpper, TextPlain, ImagePng, TextAny, AnyAny, AnyHtml}
MatchTokens == WellFormed \cup Malformed

ParamKeys == <<"q", "level", "charset">>

\* the b-th value a requested / an allowed map may carry under a key
ReqValue(key, b) ==
  IF key = "q" THEN (IF b = 1 THEN Num(5000) ELSE Num(7000))
  ELSE (IF b = 1 THEN Num(20000) ELSE Num(30000))
AllowedValue(key, b) ==
  IF key = "q" THEN (IF b = 1 THEN Num(5000) ELSE Str(<<"0", ".", "7">>))
  ELSE (IF b = 1 THEN Num(20000) ELSE Str(<<"2">>))

Min(x, y) == IF x < y THEN x ELSE y

\* every order of every choice of at most MaxParams distinct keys
KeySeqs ==
  {ks \in UNION {[1..k -> 1..Len(ParamKeys)] : k \in 0..Min(MaxParams, Len(ParamKeys))} :
     \A i, j \in 1..Len(ks) : i # j => ks[i] # ks[j]}

ReqMaps ==
  UNION {{[i \in 1..Len(ks) |-> <<ParamKeys[ks[i]], ReqValue(ParamKeys[ks[i]], vs[i])>>] :
            vs \in [1..Len(ks) -> 1..2]} : ks \in KeySeqs}

\* an allowed map is only read through has/get: one order per key set
AllowedKeySeqs ==
  {ks \in UNION {[1..k -> 1..Len(ParamKeys)] : k \in 0..Len(ParamKeys)} :
     \A i, j \in 1..Len(ks) : i < j => ks[i] < ks[j]}

AllowedMaps ==
  UNION {{[i \in 1..Len(ks) |-> <<ParamKeys[ks[i]], AllowedValue(ParamKeys[ks[i]], vs[i])>>] :
            vs \in [1..Len(ks) -> 1..2]} : ks \in AllowedKeySeqs}

Item(tok, ps) == [token |-> tok, params |-> ps]

Level(k) == <<"level", Num(k * 10000)>>
Charset == <<"charset", Str(<<"u", "t", "f", "-", "8">>)>>
Q(k) == <<"q", Num(k)>>

\* the items sort is called with: the README's text/html;level=3;q=0.7 and
\* text/html;q=0.7 among them
SortItems ==
  { Item(TextHtml, <<Level(3), Q(7000)>>),
    Item(TextHtml, <<Q(7000)>>),
    Item(TextPlain, <<Q(7000)>>),
    Item(TextHtml, <<>>),
    Item(TextHtml, <<Q(9999)>>),
    Item(TextPlain, <<Q(0)>>),
    Item(TextAny, <<Q(7000)>>),
    Item(ImageAny, <<Q(7000), Level(1)>>),
    Item(AnyAny, <<>>),
    Item(AnyAny, <<Level(1), Charset>>),
    Item(AnyAny, <<Q(7000)>>),
    Item(AnyHtml, <<Q(7000)>>),
    Item(NoSlash, <<Q(7000)>>) }

\* the items the comparator is applied to: those, and more q values
CmpItems ==
  SortItems \cup
  { Item(TextPlain, <<Q(5000)>>),
    Item(TextAny, <<Q(1000)>>),
    Item(TextHtml, <<Q(10000)>>),
    Item(TextHtml, <<Level(1), Q(9990)>>),
    Item(TextPlain, <<Q(15000), Level(1)>>),
    Item(TextPlain, <<Q(-5000)>>),
    Item(TextHtml, <<<<"q", Str(<<"x">>)>>>>),
    Item(TextPlain, <<<<"q", Bool(TRUE)>>>>),
    Item(TextHtmlUpper, <<<<"q", Str(<<"0", ".", "7">>)>>>>),
    Item(BadChar, <<Level(1)>>) }

Inputs == UNION {[1..k -> SortItems] : k \in 0..MaxItems}

\* ------------------------------------------------------------ state machine
NoItem == Item(<<>>, <<>>)
NoResult == [kind |-> "none", map |-> <<>>]
NoCmp == [ab |-> 0, ba |-> 0, bc |-> 0, ac |-> 0]

Init ==
  /\ pc = "idle"
  /\ req = NoItem /\ allowed = NoItem /\ result = NoResult
  /\ input = <<>> /\ heap = <<>> /\ types = 0 /\ sorted = 0
  /\ cmpArgs = <<>> /\ cmpRes = NoCmp

\* a caller evaluates match(req, allowed)
CallMatch ==
  /\ pc = "idle"
  /\ \E rt \in MatchTokens, at \in MatchTokens, rp \in ReqMaps, ap \in AllowedMaps :
       /\ req' = Item(rt, rp)
       /\ allowed' = Item(at, ap)
       /\ result' = match(Item(rt, rp), Item(at, ap))
  /\ pc' = "matched"
  /\ UNCHANGED <<input, heap, types, sorted, cmpArgs, cmpRes>>

\* a caller holding the array `types` evaluates sort(types)
CallSort ==
  /\ pc = "idle"
  /\ \E arr \in Inputs :
       LET r == sort(<<arr>>, 1)
       IN /\ input' = arr
          /\ types' = 1
          /\ heap' = r.heap
          /\ sorted' = r.ref
  /\ pc' = "sorted"
  /\ UNCHANGED <<req, allowed, result, cmpArgs, cmpRes>>

\* the sort's comparator applied to the pairs of three items
CallComparator ==
  /\ pc = "idle"
  /\ \E a \in CmpItems, b \in CmpItems, c \in CmpItems :
       /\ cmpArgs' = <<a, b, c>>
       /\ cmpRes' = [ab |-> comparator(a, b), ba |-> comparator(b, a),
                     bc |-> comparator(b, c), ac |-> comparator(a, c)]
  /\ pc' = "compared"
  /\ UNCHANGED <<req, allowed, result, input, heap, types, sorted>>

\* the call returns and its values are dropped
Return ==
  /\ pc # "idle"
  /\ pc' = "idle"
  /\ req' = NoItem /\ allowed' = NoItem /\ result' = NoResult
  /\ input' = <<>> /\ heap' = <<>> /\ types' = 0 /\ sorted' = 0
  /\ cmpArgs' = <<>> /\ cmpRes' = NoCmp

Next == CallMatch \/ CallSort \/ CallComparator \/ Return

Spec == Init /\ [][Next]_vars

\* the Matcher alone, and the Sorter alone
NextMatch == CallMatch \/ Return
SpecMatch == Init /\ [][NextMatch]_vars

NextSort == CallSort \/ CallComparator \/ Return
SpecSort == Init /\ [][NextSort]_vars

\* ------------------------------------------------ vocabulary of the claims
WithoutQ(m) == SelectSeq(m, LAMBDA e : e[1] # "q")
NonQKeys(m) == {m[i][1] : i \in {j \in 1..Len(m) : m[j][1] # "q"}}
NonQCount(it) == Cardinality(NonQKeys(it.params))

IsWellFormed(tok) == MEDIA_TYPE(tok) # <<>>
TypeOf(tok) == toLowerCase(MEDIA_TYPE(tok)[2])
SubtypeOf(tok) == toLowerCase(MEDIA_TYPE(tok)[3])

IsAnyAny(tok) == tok = <<"*", "/", "*">>
IsTypeAny(tok) ==
  IsWellFormed(tok) /\ TypeOf(tok) # <<"*">> /\ SubtypeOf(tok) = <<"*">>
HasConcreteSubtype(tok) == IsWellFormed(tok) /\ SubtypeOf(tok) # <<"*">>
IsConcrete(tok) ==
  IsWellFormed(tok) /\ TypeOf(tok) # <<"*">> /\ SubtypeOf(tok) # <<"*">>

\* specificity level of a well-formed token: 0 concrete subtype, 1 type/*, 2 */*
Specificity(tok) ==
  IF IsAnyAny(tok) THEN 2 ELSE IF IsTypeAny(tok) THEN 1 ELSE 0

\* the numeric value of a q parameter (a string counts by the number it spells)
NumericValue(v) ==
  IF v.t = "number" THEN [nan |-> FALSE, n |-> v.n] ELSE StringToNumber(toString(v))

\* effective quality score of an item, as the claims define it
QualityScore(it) ==
  LET q == MapGet(it.params, "q")
      x == NumericValue(q)
  IN IF ~MapHas(it.params, "q") THEN 1000
     ELSE IF x.nan THEN 0
     ELSE IF x.n = 10000 THEN 1000
     ELSE IF 0 < x.n /\ x.n < 10000 THEN x.n \div 10
     ELSE 0

\* requested/allowed compatibility as C8 words it, for a requested token of
\* one of the shapes */*, t/*, t/s
DirectionalCompatible(rt, at) ==
  \/ IsAnyAny(rt) /\ IsWellFormed(at)
  \/ IsTypeAny(rt) /\ IsWellFormed(at) /\ TypeOf(at) = TypeOf(rt)
  \/ /\ IsConcrete(rt) /\ IsWellFormed(at)
     /\ TypeOf(at) = TypeOf(rt) /\ SubtypeOf(at) = SubtypeOf(rt)

ValuesAgree(v, w) == v = w \/ toString(v) = toString(w)

Disagreeing(r, a) ==
  {k \in NonQKeys(r) : ~ValuesAgree(MapGet(r, k), MapGet(a, k))}

Sign(x) == IF x < 0 THEN -1 ELSE IF x > 0 THEN 1 ELSE 0

Count(seq, x) == Cardinality({i \in 1..Len(seq) : seq[i] = x})

Out == heap[sorted]

\* ------------------------------------------------------ claims: Matcher
\* C1: in match, the requested q is ignored entirely: for a compatible pair
\* the call raises no error, q is never a key of the returned map, and the
\* result is the result of the same call with q removed from the requested map.
C1_QIgnored ==
  (pc = "matched" /\ DirectionalCompatible(req.token, allowed.token)
     /\ MapHas(req.params, "q"))
  => /\ result.kind # "throw"
     /\ ~MapHas(result.map, "q")
     /\ result = match(Item(req.token, WithoutQ(req.params)), allowed)

\* C2: a malformed token matches nothing: when the requested token, the
\* allowed token or both are rejected by split, match returns false.
C2_MalformedMatchesNothing ==
  (pc = "matched" /\ (split(req.token) = <<>> \/ split(allowed.token) = <<>>))
  => result = RFalse

\* C6: for a compatible pair whose non-q requested names all exist in the
\* allowed map, match returns true when every such value agrees, and
\* otherwise the map of exactly the disagreeing names to the requested values.
C6_MismatchReport ==
  (pc = "matched" /\ DirectionalCompatible(req.token, allowed.token)
     /\ \A k \in NonQKeys(req.params) : MapHas(allowed.params, k))
  => LET bad == Disagreeing(req.params, allowed.params)
     IN IF bad = {} THEN result = RTrue
        ELSE /\ result.kind = "map"
             /\ Len(result.map) = Cardinality(bad)
             /\ {result.map[i] : i \in 1..Len(result.map)} =
                  {<<k, MapGet(req.params, k)>> : k \in bad}

\* C7: a requested name other than q that the allowed map lacks makes match
\* return false, wherever the name stands among the requested keys.
C7_UnknownNameFails ==
  (pc = "matched" /\ \E k \in NonQKeys(req.params) : ~MapHas(allowed.params, k))
  => result = RFalse

\* C8: compatibility is directional: a requested */* goes with every
\* well-formed allowed token, a requested t/* with every allowed token of type
\* t, a requested concrete t/s only with the allowed token of the same
\* lowercased type and subtype; a wildcard on the allowed side is nothing
\* special.  An incompatible pair gives false whatever the parameters, a
\* compatible one is decided by the parameters alone.
C8_Directional ==
  (pc = "matched"
     /\ (IsAnyAny(req.token) \/ IsTypeAny(req.token) \/ IsConcrete(req.token))
     /\ (IsAnyAny(req.token) => IsWellFormed(allowed.token)))
  => IF DirectionalCompatible(req.token, allowed.token)
     THEN result = contains(req.params, allowed.params)
     ELSE result = RFalse

\* text/html;level=2 asked of */*;level=2 : the parameters agree, the allowed
\* wildcard does not help
C8_Witness ==
  /\ pc = "matched"
  /\ req = Item(TextHtml, <<<<"level", Num(20000)>>>>)
  /\ allowed = Item(AnyAny, <<<<"level", Num(20000)>>>>)
  /\ result = RFalse
  /\ contains(req.params, allowed.params) = RTrue

\* ------------------------------------------------------- claims: Sorter
\* C3: sort orders by quality first: whenever one item has a greater
\* effective quality score than another, the comparator puts it first and it
\* stands before the other in sort's output, whatever their tokens and
\* parameter counts.
C3_QualityFirst ==
  /\ pc = "sorted" =>
       LET score == [i \in 1..Len(Out) |-> QualityScore(Out[i])]
       IN \A i, j \in 1..Len(Out) : score[i] > score[j] => i < j
  /\ pc = "compared" =>
       (QualityScore(cmpArgs[1]) > QualityScore(cmpArgs[2]) => cmpRes.ab < 0)

\* */* (score 1000) overtakes text/html;q=0.9999 (score 999, not 1000) and
\* the more specific text/html;level=3;q=0.7
C3_Witness ==
  /\ pc = "sorted"
  /\ input = <<Item(TextHtml, <<Level(3), Q(7000)>>), Item(TextHtml, <<Q(9999)>>),
               Item(AnyAny, <<>>)>>
  /\ Out = <<Item(AnyAny, <<>>), Item(TextHtml, <<Q(9999)>>),
             Item(TextHtml, <<Level(3), Q(7000)>>)>>

\* C4: among items of equal score, every */* item stands after every item
\* that is not */*, and every type/* item after every item with a concrete
\* subtype, whatever the parameter counts; two items both */*, both type/* or
\* both concrete are not told apart by the type rule.
C4_Specificity ==
  /\ pc = "sorted" =>
       LET score == [i \in 1..Len(Out) |-> QualityScore(Out[i])]
           anyAny == [i \in 1..Len(Out) |-> IsAnyAny(Out[i].token)]
           typeAny == [i \in 1..Len(Out) |-> IsTypeAny(Out[i].token)]
           concrete == [i \in 1..Len(Out) |-> HasConcreteSubtype(Out[i].token)]
       IN \A i, j \in 1..Len(Out) :
            score[i] = score[j] =>
              /\ (anyAny[i] /\ ~anyAny[j]) => j < i
              /\ (typeAny[i] /\ concrete[j]) => j < i
  /\ pc = "compared" =>
       LET a == cmpArgs[1]
           b == cmpArgs[2]
       IN /\ (\/ IsAnyAny(a.token) /\ IsAnyAny(b.token)
              \/ IsTypeAny(a.token) /\ IsTypeAny(b.token)
              \/ IsConcrete(a.token) /\ IsConcrete(b.token))
             => sortByType(a.token, b.token) = 0
          /\ QualityScore(a) = QualityScore(b) =>
               /\ (IsAnyAny(a.token) /\ ~IsAnyAny(b.token)) => cmpRes.ab > 0
               /\ (IsTypeAny(a.token) /\ HasConcreteSubtype(b.token)) => cmpRes.ab > 0

\* */* with two parameters, text/*;q=0.7... all of one score: the input
\* order is the reverse of the specificity order
C4_Witness ==
  /\ pc = "sorted"
  /\ input = <<Item(AnyAny, <<Q(7000)>>), Item(ImageAny, <<Q(7000), Level(1)>>),
               Item(TextHtml, <<Q(7000)>>)>>
  /\ Out = <<Item(TextHtml, <<Q(7000)>>), Item(ImageAny, <<Q(7000), Level(1)>>),
             Item(AnyAny, <<Q(7000)>>)>>

\* C5: among well-formed items of equal score and equal specificity, the one
\* with more parameters other than q stands first; q is never counted, so two
\* such items with the same number of other parameters tie.
C5_ParameterCount ==
  /\ pc = "sorted" =>
       LET score == [i \in 1..Len(Out) |-> QualityScore(Out[i])]
           wf == [i \in 1..Len(Out) |-> IsWellFormed(Out[i].token)]
           spec == [i \in 1..Len(Out) |-> IF wf[i] THEN Specificity(Out[i].token) ELSE -1]
           cnt == [i \in 1..Len(Out) |-> NonQCount(Out[i])]
       IN \A i, j \in 1..Len(Out) :
            (/\ wf[i] /\ wf[j] /\ score[i] = score[j] /\ spec[i] = spec[j]
             /\ cnt[i] > cnt[j]) => i < j
  /\ pc = "compared" =>
       LET a == cmpArgs[1]
           b == cmpArgs[2]
       IN (/\ IsWellFormed(a.token) /\ IsWellFormed(b.token)
           /\ QualityScore(a) = QualityScore(b)
           /\ Specificity(a.token) = Specificity(b.token))
          => /\ NonQCount(a) > NonQCount(b) => cmpRes.ab < 0
             /\ NonQCount(a) = NonQCount(b) => cmpRes.ab = 0

\* text/html;q=0.7 before text/html;level=3;q=0.7 in the input, after it in
\* the output
C5_Witness ==
  /\ pc = "sorted"
  /\ input = <<Item(TextHtml, <<Q(7000)>>), Item(TextHtml, <<Level(3), Q(7000)>>)>>
  /\ Out = <<Item(TextHtml, <<Level(3), Q(7000)>>), Item(TextHtml, <<Q(7000)>>)>>

\* text/html;q=1 against text/html: a tie
C5_TieWitness ==
  /\ pc = "compared"
  /\ cmpArgs[1] = Item(TextHtml, <<Q(10000)>>)
  /\ cmpArgs[2] = Item(TextHtml, <<>>)
  /\ cmpRes.ab = 0

\* C9: sort leaves its input array as it was and returns another array, a
\* permutation of the input: same length, same items, same multiplicities.
C9_InputUntouched ==
  pc = "sorted" =>
    /\ heap[types] = input
    /\ sorted # types
    /\ Len(Out) = Len(input)
    /\ \A x \in SortItems : Count(Out, x) = Count(input, x)

\* an input with a repeated item that sort has to reorder
C9_Witness ==
  /\ pc = "sorted"
  /\ Len(input) = MaxItems
  /\ input[1] = input[2]
  /\ Out # input
  /\ heap[types] = input

\* C10: the comparator is a consistent strict weak ordering, malformed tokens
\* and */html included: the sign flips when the arguments are swapped, "before"
\* is transitive, "tie" is transitive; so every output of sort is in order.
C10_WeakOrder ==
  /\ pc = "compared" =>
       /\ Sign(cmpRes.ab) = 0 - Sign(cmpRes.ba)
       /\ (cmpRes.ab < 0 /\ cmpRes.bc < 0) => cmpRes.ac < 0
       /\ (cmpRes.ab = 0 /\ cmpRes.bc = 0) => cmpRes.ac = 0
  /\ pc = "sorted" =>
       \A i, j \in 1..Len(Out) : i < j => comparator(Out[i], Out[j]) <= 0

\* */html, a malformed token and text/html, all q=0.7 with no other
\* parameter: a chain of ties
C10_Witness ==
  /\ pc = "compared"
  /\ cmpArgs = <<Item(AnyHtml, <<Q(7000)>>), Item(NoSlash, <<Q(7000)>>),
                 Item(TextHtml, <<Q(7000)>>)>>
  /\ cmpRes.ab = 0 /\ cmpRes.bc = 0 /\ cmpRes.ac = 0

====
